---- MODULE Spec2Model ----
(***************************************************************************)
(* Model of the events-calendar script (src/src/eventscalendar.py):        *)
(* parse_dates, the free-text date-range normaliser, and process_dates /   *)
(* main, the batch that applies it to the sheets of a workbook; and of the  *)
(* sheet reader of the earned-media script (src/src/earnedmedia.py).       *)
(*                                                                         *)
(* A text is a sequence of tokens: a word (a run of letters or digits),    *)
(* one blank " " or one hyphen "-".  A date is a record [y, m, d]; Python's *)
(* None is the record None.                                                *)
(***************************************************************************)
EXTENDS Integers, Sequences, FiniteSets, TLC

VARIABLES
    date_str,      \* parse_dates' argument: the raw cell text
    current_year,  \* parse_dates' argument: the context year (a word)
    today,         \* the ambient calendar date, read by dateparser
    pc,            \* position of the run
    calls,         \* the calls of parse_dates made so far, oldest first
    sheets,        \* the workbook: per sheet its read outcome and Date cells
    frames,        \* the frames process_dates returned so far, in call order
    csv,           \* the rows main wrote, or NotWritten
    earned         \* read_data_from_earned_media_sheets: its sheets, its loop
                   \* position and its df_total

vars == <<date_str, current_year, today, pc, calls, sheets, frames, csv, earned>>

----------------------------------------------------------------------------
\* Bounds of the model.

\* Longest run of extra blanks the rendered input texts carry.
MaxPad == 1

\* Most rows a sheet holds.
MaxRows == 2

\* Number of sheet names handed to read_data_from_earned_media_sheets.
MaxSheets == 3

----------------------------------------------------------------------------
\* Dates.

None == [y |-> 0, m |-> 0, d |-> 0]

Date(y, m, d) == [y |-> y, m |-> m, d |-> d]

IsLeap(y) == (y % 4 = 0 /\ y % 100 # 0) \/ y % 400 = 0

DaysInMonth(y, m) ==
    IF m = 2 THEN (IF IsLeap(y) THEN 29 ELSE 28)
    ELSE IF m \in {4, 6, 9, 11} THEN 30 ELSE 31

ValidDate(dt) == dt.m \in 1..12 /\ dt.d >= 1 /\ dt.d <= DaysInMonth(dt.y, dt.m)

\* datetime.__lt__ on two naive datetimes at midnight.
DateLT(a, b) ==
    \/ a.y < b.y
    \/ a.y = b.y /\ a.m < b.m
    \/ a.y = b.y /\ a.m = b.m /\ a.d < b.d

DateLE(a, b) == a = b \/ DateLT(a, b)

----------------------------------------------------------------------------
\* Words.

\* A one- or two-digit numeral's value; 0 for any other word.
NumVal(w) ==
    CASE w = "2" -> 2
      [] w = "5" -> 5
      [] w = "12" -> 12
      [] w = "15" -> 15
      [] w = "29" -> 29
      [] w = "30" -> 30
      [] OTHER -> 0

\* Number of digits of a numeral.
NumDigits(w) == IF w \in {"2", "5"} THEN 1 ELSE 2

\* A four-digit numeral's value; 0 for any other word.
Year4Val(w) ==
    CASE w = "1999" -> 1999
      [] w = "2022" -> 2022
      [] w = "2023" -> 2023
      [] w = "2024" -> 2024
      [] OTHER -> 0

\* The month a month name or abbreviation denotes to the date parser; 0 for
\* any other word.
MonthVal(w) ==
    CASE w \in {"Jan"} -> 1
      [] w \in {"Feb"} -> 2
      [] w \in {"March"} -> 3
      [] w \in {"May"} -> 5
      [] w \in {"Sep", "Sept"} -> 9
      [] w \in {"Dec"} -> 12
      [] OTHER -> 0

\* months_regex searched in one word: the text of the leftmost match, "" when
\* the word holds none.  The search is unanchored: in "Sept" it matches "Sep".
MonthMatch(w) ==
    CASE w \in {"Jan", "Feb", "March", "May", "Sep", "Dec"} -> w
      [] w = "Sept" -> "Sep"
      [] OTHER -> ""

\* \b(20\d{2})\b matched against one word.
IsYear20(w) == w \in {"2022", "2023", "2024"}

IsBlank(t) == t = " "

IsWord(t) == t # " " /\ t # "-"

----------------------------------------------------------------------------
\* Text helpers.

RECURSIVE lstrip(_)
lstrip(s) ==
    IF s = <<>> THEN <<>>
    ELSE IF IsBlank(Head(s)) THEN lstrip(Tail(s)) ELSE s

RECURSIVE rstrip(_)
rstrip(s) ==
    IF s = <<>> THEN <<>>
    ELSE IF IsBlank(s[Len(s)]) THEN rstrip(SubSeq(s, 1, Len(s) - 1)) ELSE s

\* str.strip()
strip(s) == rstrip(lstrip(s))

\* re.sub(r"\s+", " ", s): every run of blanks becomes one blank.
RECURSIVE collapse(_)
collapse(s) ==
    IF Len(s) < 2 THEN s
    ELSE IF IsBlank(s[1]) /\ IsBlank(s[2]) THEN collapse(Tail(s))
    ELSE <<Head(s)>> \o collapse(Tail(s))

\* Line 27: date_str = re.sub(r"\s+", " ", date_str.strip())
Normalize(s) == collapse(strip(s))

\* "-" in s
HasHyphen(s) == \E i \in 1..Len(s) : s[i] = "-"

\* s.split("-") : the pieces between the hyphens, empty pieces kept.
RECURSIVE SplitAtHyphen(_, _)
SplitAtHyphen(s, cur) ==
    IF s = <<>> THEN <<cur>>
    ELSE IF Head(s) = "-" THEN <<cur>> \o SplitAtHyphen(Tail(s), <<>>)
    ELSE SplitAtHyphen(Tail(s), Append(cur, Head(s)))

\* re.split(r"\s*-\s*", s): each separator takes the blanks on both of its
\* sides, so a piece loses the blanks that touch a hyphen.
re_split(s) ==
    LET raw == SplitAtHyphen(s, <<>>)
        n == Len(raw)
    IN [i \in 1..n |->
          LET left == IF i > 1 THEN lstrip(raw[i]) ELSE raw[i]
          IN IF i < n THEN rstrip(left) ELSE left]

\* [part.strip() for part in parts if part.strip()]
RECURSIVE CleanParts(_)
CleanParts(ps) ==
    IF ps = <<>> THEN <<>>
    ELSE IF strip(Head(ps)) = <<>> THEN CleanParts(Tail(ps))
    ELSE <<strip(Head(ps))>> \o CleanParts(Tail(ps))

\* re.search(months_regex, s, re.IGNORECASE): group(0) of the leftmost match,
\* "" when there is none.
RECURSIVE SearchMonth(_)
SearchMonth(s) ==
    IF s = <<>> THEN ""
    ELSE IF MonthMatch(Head(s)) # "" THEN MonthMatch(Head(s))
    ELSE SearchMonth(Tail(s))

\* re.search(r"\b(20\d{2})\b", s) found something.
SearchYear(s) == \E i \in 1..Len(s) : IsYear20(s[i])

----------------------------------------------------------------------------
\* dateparser.parse, the natural-language date parser parse_dates imports.
\* Its absolute-date parser reads the words left to right into the components
\* month, day, year (English date order), and takes every component the text
\* does not give from the current date.

WordsOf(s) == SelectSeq(s, IsWord)

NoComponents ==
    [day |-> 0, month |-> 0, year |-> 0,
     dayTok |-> FALSE, yearTok |-> FALSE, bad |-> FALSE]

\* One word read into the components c.
ReadWord(c, w) ==
    IF c.bad THEN c
    ELSE IF MonthVal(w) > 0 THEN
        \* a month name; a numeral read as the month before it becomes the day
        IF c.month = 0 THEN [c EXCEPT !.month = MonthVal(w)]
        ELSE [c EXCEPT !.day = c.month, !.dayTok = TRUE, !.month = MonthVal(w)]
    ELSE IF Year4Val(w) > 0 THEN
        IF c.year = 0 THEN [c EXCEPT !.year = Year4Val(w), !.yearTok = TRUE]
        ELSE [c EXCEPT !.bad = TRUE]
    ELSE IF NumVal(w) > 0 THEN
        IF c.month = 0 /\ NumVal(w) <= 12 THEN [c EXCEPT !.month = NumVal(w)]
        ELSE IF c.day = 0 THEN [c EXCEPT !.day = NumVal(w), !.dayTok = TRUE]
        ELSE IF c.year = 0 /\ NumDigits(w) = 2
            THEN [c EXCEPT !.year = 2000 + NumVal(w), !.yearTok = TRUE]
        ELSE [c EXCEPT !.bad = TRUE]
    ELSE [c EXCEPT !.bad = TRUE]   \* a word of no language's date vocabulary

RECURSIVE ReadWords(_, _)
ReadWords(c, ws) ==
    IF ws = <<>> THEN c ELSE ReadWords(ReadWord(c, Head(ws)), Tail(ws))

\* The leap year closest to y, the earlier one on a tie (y is not a leap year).
RECURSIVE NextLeap(_)
NextLeap(y) == IF IsLeap(y + 1) THEN y + 1 ELSE NextLeap(y + 1)

RECURSIVE PrevLeap(_)
PrevLeap(y) == IF IsLeap(y - 1) THEN y - 1 ELSE PrevLeap(y - 1)

ClosestLeap(y) ==
    IF NextLeap(y) - y < y - PrevLeap(y) THEN NextLeap(y) ELSE PrevLeap(y)

\* dateparser.parse(s) called when the current date is now: a date, or None.
dateparser_parse(s, now) ==
    LET ws == WordsOf(s)
        c == ReadWords(NoComponents, ws)
        y == IF c.year = 0 THEN now.y ELSE c.year
        m == IF c.month = 0 THEN now.m ELSE c.month
        d == IF c.day = 0 THEN now.d ELSE c.day
    IN IF ws = <<>> \/ c.bad THEN None
       ELSE IF d <= DaysInMonth(y, m) THEN Date(y, m, d)
       ELSE IF ~c.dayTok THEN Date(y, m, DaysInMonth(y, m))
       ELSE IF ~c.yearTok /\ d = 29 /\ m = 2 THEN Date(ClosestLeap(y), m, d)
       ELSE None

\* datetime.replace(year=y): the date, or None standing for the ValueError
\* Python raises when the day does not exist in that year.
replace_year(dt, y) ==
    IF ValidDate(Date(y, dt.m, dt.d)) THEN Date(y, dt.m, dt.d) ELSE None

----------------------------------------------------------------------------
\* parse_dates.

\* CopyMonth without the test of line 51: the month is copied onto a start_str
\* that names one already.
CopyMonthAlways(start_str, end_str) ==
    IF SearchMonth(end_str) # ""
    THEN start_str \o <<" ", SearchMonth(end_str)>>
    ELSE start_str

\* Lines 51-54: the month of end_str copied onto a start_str that names none.
CopyMonth(start_str, end_str) ==
    IF SearchMonth(start_str) = "" /\ SearchMonth(end_str) # ""
    THEN start_str \o <<" ", SearchMonth(end_str)>>
    ELSE start_str

\* AppendYear putting the context year in the place of the text's own year.
AppendYearOverride(s, year) ==
    SelectSeq(s, LAMBDA t : ~IsYear20(t)) \o <<" ", year>>

\* Lines 57-60 and 81-82: the context year appended to a text holding no year.
AppendYear(s, year) ==
    IF ~SearchYear(s) THEN s \o <<" ", year>> ELSE s

\* AppendYears with one test for the two parts: the year is appended only when
\* neither part holds one.
AppendYearsIfNeither(start_str, end_str, year) ==
    IF ~SearchYear(start_str) /\ ~SearchYear(end_str)
    THEN <<start_str \o <<" ", year>>, end_str \o <<" ", year>>>>
    ELSE <<start_str, end_str>>

\* Lines 56-60: the two parts after the year step.
AppendYears(start_str, end_str, year) ==
    <<AppendYear(start_str, year), AppendYear(end_str, year)>>

\* What one call leaves behind: its locals and what it returns.  with_month
\* is start_str and end_str as they stand at line 55, after the month step;
\* parsed_start and parsed_end are what the date parser gave; caught tells
\* that the except clause of line 94 ran; raised, that an exception left the
\* call.
Outcome(branch, parts, with_month, strs, p1, p2, sd, ed, caught) ==
    [branch |-> branch, parts |-> parts, with_month |-> with_month,
     start_str |-> strs[1], end_str |-> strs[2],
     parsed_start |-> p1, parsed_end |-> p2,
     start_date |-> sd, end_date |-> ed,
     caught |-> caught, raised |-> FALSE]

\* RangeResult without lines 67-69: a pair with one side None is returned as
\* it was parsed.
RangeResultUnchecked(p1, p2) ==
    IF p1 = None \/ p2 = None
    THEN [start_date |-> p1, end_date |-> p2, caught |-> FALSE]
    ELSE IF DateLT(p2, p1) /\ replace_year(p2, p2.y + 1) # None
    THEN [start_date |-> p1, end_date |-> replace_year(p2, p2.y + 1),
          caught |-> FALSE]
    ELSE [start_date |-> p1, end_date |-> p2, caught |-> FALSE]

\* Lines 66-74: the two parsed dates of a range made into the returned pair;
\* caught when datetime.replace raises.
RangeResult(p1, p2) ==
    IF p1 = None \/ p2 = None
    THEN [start_date |-> None, end_date |-> None, caught |-> FALSE]
    ELSE IF DateLT(p2, p1)
    THEN IF replace_year(p2, p2.y + 1) = None
         THEN [start_date |-> None, end_date |-> None, caught |-> TRUE]
         ELSE [start_date |-> p1, end_date |-> replace_year(p2, p2.y + 1),
               caught |-> FALSE]
    ELSE [start_date |-> p1, end_date |-> p2, caught |-> FALSE]

\* Lines 42-74: a text whose split gave exactly two parts.
ParseRange(parts, year, now) ==
    LET with_month == <<CopyMonth(parts[1], parts[2]), parts[2]>>
        strs == AppendYears(with_month[1], with_month[2], year)
        p1 == dateparser_parse(strs[1], now)
        p2 == dateparser_parse(strs[2], now)
        r == RangeResult(p1, p2)
    IN Outcome("range", parts, with_month, strs, p1, p2,
               r.start_date, r.end_date, r.caught)

\* ParseFallback rejecting the text instead of parsing it.
ParseFallbackUnparseable(parts, s, now) ==
    Outcome("fallback", parts, <<>>, <<s, s>>, None, None, None, None, FALSE)

\* Lines 75-78: the whole text parsed as one date, no year appended.
ParseFallback(parts, s, now) ==
    LET dt == dateparser_parse(s, now)
    IN Outcome("fallback", parts, <<>>, <<s, s>>, dt, dt, dt, dt, FALSE)

\* ParseSingle without lines 81-82: the context year is never appended.
ParseSingleNoYear(s, year, now) ==
    LET dt == dateparser_parse(s, now)
    IN Outcome("single", <<>>, <<>>, <<s, s>>, dt, dt, dt, dt, FALSE)

\* Lines 79-86: a text without a hyphen.
ParseSingle(s, year, now) ==
    LET str == AppendYear(s, year)
        dt == dateparser_parse(str, now)
    IN Outcome("single", <<>>, <<>>, <<str, str>>, dt, dt, dt, dt, FALSE)

\* parse_dates(date_str, current_year), called when the current date is now.
parse_dates(text, year, now) ==
    LET s == Normalize(text)
    IN IF HasHyphen(s)
       THEN LET parts == CleanParts(re_split(s))
            IN IF Len(parts) = 2 THEN ParseRange(parts, year, now)
               ELSE ParseFallback(parts, s, now)
       ELSE ParseSingle(s, year, now)

----------------------------------------------------------------------------
\* The inputs: cell texts, context years, current dates.

DayWords == {"2", "15", "29"}
MonthWords == {"Feb", "Sept", "Dec"}
YearWords == {"2023", "2024"}

Opt(S) == {<<>>} \cup {<<w>> : w \in S}

\* A phrase is a sequence of words: day, month and year, each optional, or a
\* word that belongs to no date.
Phrases ==
    {d \o m \o y : d \in Opt(DayWords), m \in Opt(MonthWords), y \in Opt(YearWords)}
        \cup {<<"not">>}

\* The phrases of the texts with two hyphens.
SmallPhrases == {<<>>, <<"2">>, <<"15">>, <<"2024">>, <<"15", "Feb">>, <<"not">>}

PhraseLists ==
    {<<p>> : p \in Phrases}
        \cup {<<p, q>> : p, q \in Phrases}
        \cup {<<p, q, r>> : p, q, r \in SmallPhrases}

Spaces(n) == [i \in 1..n |-> " "]

RECURSIVE JoinWords(_, _)
JoinWords(ws, gap) ==
    IF Len(ws) < 2 THEN ws
    ELSE <<Head(ws)>> \o gap \o JoinWords(Tail(ws), gap)

RECURSIVE JoinPhrases(_, _)
JoinPhrases(ps, pad) ==
    IF Len(ps) = 1 THEN JoinWords(ps[1], Spaces(1 + pad))
    ELSE JoinWords(ps[1], Spaces(1 + pad))
             \o Spaces(pad) \o <<"-">> \o Spaces(pad)
             \o JoinPhrases(Tail(ps), pad)

\* The phrases written out with hyphens between them, pad blanks around each
\* hyphen and at both ends, and 1 + pad blanks between two words.
Render(ps, pad) == Spaces(pad) \o JoinPhrases(ps, pad) \o Spaces(pad)

\* The texts the specification names.
SpecExamples ==
    {<<"12", " ", "-", " ", "15", " ", "March">>,
     <<"5", " ", "May">>,
     <<"30", " ", "Dec", " ", "-", " ", "2", " ", "Jan">>,
     <<"not", " ", "a", " ", "date">>,
     <<"5", " ", "May", " ", "1999">>}

Texts == {Render(ps, pad) : ps \in PhraseLists, pad \in 0..MaxPad} \cup SpecExamples

\* The sheet names main passes as the context year (lines 157-159).
ContextYears == {"2022", "2023", "2024"}

\* The current dates of the runs.
Todays == {Date(2024, 6, 30), Date(2026, 1, 9)}

----------------------------------------------------------------------------
\* The state machine of the calls of parse_dates: a caller normalises a text,
\* and may normalise it again later, under another context year or on
\* another day.

CallRecord(text, year, now) ==
    [text |-> text, year |-> year, now |-> now, out |-> parse_dates(text, year, now)]

NotWritten == [written |-> FALSE, rows |-> <<>>]

\* read_data_from_earned_media_sheets not called.
NoEarned == [sheets |-> <<>>, next |-> 1, df_total |-> <<>>, returned |-> FALSE]

Init ==
    /\ date_str \in Texts
    /\ current_year \in ContextYears
    /\ today \in Todays
    /\ pc = "ready"
    /\ calls = <<>>
    /\ sheets = <<>>
    /\ frames = <<>>
    /\ csv = NotWritten
    /\ earned = NoEarned

\* One call parse_dates(date_str, current_year).
ParseDates ==
    /\ pc \in {"ready", "called", "moved"}
    /\ calls' = Append(calls, CallRecord(date_str, current_year, today))
    /\ pc' = IF pc = "ready" THEN "called" ELSE "done"
    /\ UNCHANGED <<date_str, current_year, today, sheets, frames, csv, earned>>

\* Time passes between two calls.
ClockAdvance ==
    /\ pc = "called"
    /\ \E t \in Todays : DateLT(today, t) /\ today' = t
    /\ pc' = "moved"
    /\ UNCHANGED <<date_str, current_year, calls, sheets, frames, csv, earned>>

\* The caller goes on to another sheet: another context year.
ChangeYear ==
    /\ pc = "called"
    /\ \E y \in ContextYears \ {current_year} : current_year' = y
    /\ pc' = "moved"
    /\ UNCHANGED <<date_str, today, calls, sheets, frames, csv, earned>>

Next == ParseDates \/ ClockAdvance \/ ChangeYear

Spec == Init /\ [][Next]_vars

----------------------------------------------------------------------------
\* process_dates and main: the batch over the three sheets of the workbook.

\* The sheets main processes, in order (lines 157-159); a sheet's name is the
\* context year of its rows.
SheetNames == <<"2022", "2023", "2024">>

\* The Date cells of the sheets.
RowTexts ==
    {<<"2", " ", "Feb">>, <<"not">>, <<"2", "-", "15", " ", "Feb">>}

RowSeqs == UNION {[1..n -> RowTexts] : n \in 1..MaxRows}

\* A sheet as pd.read_excel finds it: read is "ok", "not_found"
\* (FileNotFoundError) or "error" (any other exception); has_date tells whether
\* the frame has a "Date" column; rows are its Date cells.
SheetChoices ==
    {[read |-> "ok", has_date |-> TRUE, rows |-> r] : r \in RowSeqs}
        \cup {[read |-> "ok", has_date |-> FALSE, rows |-> <<>>],
              [read |-> "not_found", has_date |-> FALSE, rows |-> <<>>],
              [read |-> "error", has_date |-> FALSE, rows |-> <<>>]}

Pad2(n) == IF n < 10 THEN "0" \o ToString(n) ELSE ToString(n)

\* Timestamp.strftime("%Y-%m-%d"), for a year of four digits.
strftime(dt) == ToString(dt.y) \o "-" \o Pad2(dt.m) \o "-" \o Pad2(dt.d)

\* Line 141 on one row: dropped when one of its two dates is missing.
KeptRow(text, o) ==
    IF o.start_date = None \/ o.end_date = None THEN <<>>
    ELSE <<[Date |-> text, Start |-> o.start_date, End |-> o.end_date]>>

\* Lines 136-141: parse_dates applied to every Date cell under the sheet's
\* name, and the rows whose two dates are both set, in order.
RECURSIVE ParsedRows(_, _, _)
ParsedRows(rows, year, now) ==
    IF rows = <<>> THEN <<>>
    ELSE KeptRow(Head(rows), parse_dates(Head(rows), year, now))
             \o ParsedRows(Tail(rows), year, now)

\* Lines 143-145: the two date columns formatted.
FormatRows(rows) ==
    [i \in 1..Len(rows) |->
        [Date |-> rows[i].Date,
         StartDate |-> strftime(rows[i].Start),
         EndDate |-> strftime(rows[i].End)]]

EmptyFrame == [raised |-> FALSE, rows |-> <<>>]

\* Lines 143-147 on the nrows rows of which kept were kept.  The .dt accessor
\* exists on a datetime column only.  The two new columns are datetime
\* columns when every row parsed, object columns of None when no row parsed;
\* when some rows parsed and some did not, the column type is what the
\* installed pandas infers from Timestamps mixed with None: infers tells
\* whether it infers a datetime column.
FormattedFrame(kept, nrows, infers) ==
    IF Len(kept) = nrows \/ (Len(kept) > 0 /\ infers)
    THEN [raised |-> FALSE, rows |-> FormatRows(kept)]
    ELSE [raised |-> TRUE, rows |-> <<>>]   \* AttributeError, line 144

\* process_dates(filepath, sheet_name) on a sheet, when the current date is
\* now: the frame it returns, or raised when an exception leaves it.
process_dates(sheet, sheet_name, now, infers) ==
    IF sheet.read # "ok" THEN EmptyFrame            \* lines 118-125
    ELSE IF ~sheet.has_date THEN EmptyFrame         \* lines 127-130
    ELSE FormattedFrame(ParsedRows(sheet.rows, sheet_name, now),
                        Len(sheet.rows), infers)

\* pd.concat of the frames, axis 0.
RECURSIVE Concat(_)
Concat(fs) ==
    IF fs = <<>> THEN <<>> ELSE Head(fs).rows \o Concat(Tail(fs))

InitBatch ==
    /\ sheets \in [1..Len(SheetNames) -> SheetChoices]
    /\ today \in Todays
    /\ pc = "main"
    /\ frames = <<>>
    /\ csv = NotWritten
    /\ earned = NoEarned
    /\ date_str = <<>>
    /\ current_year = SheetNames[1]
    /\ calls = <<>>

\* Lines 157-159: main calls process_dates on the next sheet; an exception
\* that leaves process_dates ends main.
ProcessDates ==
    /\ pc = "main"
    /\ Len(frames) < Len(SheetNames)
    /\ \E infers \in BOOLEAN :
         \E f \in {process_dates(sheets[Len(frames) + 1],
                                 SheetNames[Len(frames) + 1], today, infers)} :
            /\ frames' = Append(frames, f)
            /\ pc' = IF f.raised THEN "crashed" ELSE "main"
    /\ UNCHANGED <<date_str, current_year, today, calls, sheets, csv, earned>>

\* Lines 162-170: the frames concatenated and written; a failing to_csv is
\* caught and reported.
SaveCsv ==
    /\ pc = "main"
    /\ Len(frames) = Len(SheetNames)
    /\ \E ok \in BOOLEAN :
         csv' = IF ok THEN [written |-> TRUE, rows |-> Concat(frames)]
                ELSE NotWritten
    /\ pc' = "done"
    /\ UNCHANGED <<date_str, current_year, today, calls, sheets, frames, earned>>

NextBatch == ProcessDates \/ SaveCsv

SpecBatch == InitBatch /\ [][NextBatch]_vars

----------------------------------------------------------------------------
\* read_data_from_earned_media_sheets (src/src/earnedmedia.py).

\* The sheet names main passes (lines 43-53).
MonthSheets ==
    <<"January", "February", "March", "April", "May", "June", "July",
      "August", "September">>

\* The sheet_names argument: the first MaxSheets of them.
EarnedSheetNames == SubSeq(MonthSheets, 1, MaxSheets)

EarnedCells == {"r1", "r2"}

\* A sheet as pd.read_excel finds it: its rows, or the exception raised.
EarnedSheetChoices ==
    {[read |-> "ok", rows |-> r] :
        r \in UNION {[1..n -> EarnedCells] : n \in 0..MaxRows}}
        \cup {[read |-> "not_found", rows |-> <<>>],
              [read |-> "error", rows |-> <<>>]}

\* A sheet's rows as they stand in a frame.
SheetFrame(name, rows) ==
    [i \in 1..Len(rows) |-> [sheet |-> name, cell |-> rows[i]]]

\* Lines 24-33, one turn of the loop: the sheet read and concatenated to
\* df_total; any exception is caught and reported, df_total left as it was.
read_one_sheet(df_total, sheet, name) ==
    IF sheet.read = "ok" THEN df_total \o SheetFrame(name, sheet.rows)
    ELSE df_total

InitEarned ==
    /\ earned \in {[sheets |-> ss, next |-> 1, df_total |-> <<>>,
                    returned |-> FALSE] :
                      ss \in [1..Len(EarnedSheetNames) -> EarnedSheetChoices]}
    /\ pc = "earned"
    /\ today \in Todays
    /\ sheets = <<>>
    /\ frames = <<>>
    /\ csv = NotWritten
    /\ date_str = <<>>
    /\ current_year = SheetNames[1]
    /\ calls = <<>>

\* Lines 23-33: the loop body on the next sheet name.
ReadSheet ==
    /\ pc = "earned"
    /\ earned.next <= Len(earned.sheets)
    /\ earned' = [earned EXCEPT
                    !.df_total = read_one_sheet(earned.df_total,
                                                earned.sheets[earned.next],
                                                EarnedSheetNames[earned.next]),
                    !.next = earned.next + 1]
    /\ UNCHANGED <<date_str, current_year, today, pc, calls, sheets, frames, csv>>

\* Line 35: return df_total.
ReturnTotal ==
    /\ pc = "earned"
    /\ earned.next > Len(earned.sheets)
    /\ earned' = [earned EXCEPT !.returned = TRUE]
    /\ pc' = "done"
    /\ UNCHANGED <<date_str, current_year, today, calls, sheets, frames, csv>>

NextEarned == ReadSheet \/ ReturnTotal

SpecEarned == InitEarned /\ [][NextEarned]_vars

----------------------------------------------------------------------------
\* The properties.

Succeeded(o) == o.start_date # None /\ o.end_date # None

Unparseable(o) == o.start_date = None /\ o.end_date = None

Returned(o) == <<o.start_date, o.end_date>>

CallIds == 1..Len(calls)

HasMonthName(s) == \E i \in 1..Len(s) : MonthMatch(s[i]) # ""

HasYear20(s) == \E i \in 1..Len(s) : s[i] \in {"2022", "2023", "2024"}

\* C1: whenever parse_dates returns a pair of dates, the end date is not
\* earlier than the start date.
C1_EndNotBeforeStart ==
    \A i \in CallIds :
        Succeeded(calls[i].out)
            => DateLE(calls[i].out.start_date, calls[i].out.end_date)

\* C2: parse_dates never raises; it returns two dates or (None, None), and
\* (None, None) whenever the parser gave no date for a part or a step threw.
C2_NeverRaisesNeverHalf ==
    \A i \in CallIds :
        LET o == calls[i].out
        IN /\ ~o.raised
           /\ Succeeded(o) \/ Unparseable(o)
           /\ (o.parsed_start = None \/ o.parsed_end = None \/ o.caught)
                  => Unparseable(o)

\* A range whose start parsed and whose end did not came back (None, None).
C2_Witness ==
    \E i \in CallIds :
        LET o == calls[i].out
        IN /\ o.branch = "range"
           /\ o.parsed_start # None /\ o.parsed_end = None
           /\ Unparseable(o)

\* C3 as stated: a split into more than two non-empty parts gives
\* (None, None).
C3_AmbiguousSplitUnparseable ==
    \A i \in CallIds :
        Len(calls[i].out.parts) > 2 => Unparseable(calls[i].out)

\* C3 amended: a split into more than two non-empty parts makes parse_dates
\* parse the whole normalised text once, with no context year appended; the
\* result is that date for start and end, (None, None) exactly when the
\* parser gives none.  "2024-2-15" gives 2024-02-15.
C3_AmbiguousSplitFallsBack ==
    \A i \in CallIds :
        LET c == calls[i]
            o == c.out
        IN Len(o.parts) > 2 =>
            /\ o.branch = "fallback"
            /\ o.start_str = Normalize(c.text)
            /\ o.parsed_start = dateparser_parse(Normalize(c.text), c.now)
            /\ o.start_date = o.parsed_start /\ o.end_date = o.parsed_start
            /\ c.text = <<"2024", "-", "2", "-", "15">>
                   => Returned(o) = <<Date(2024, 2, 15), Date(2024, 2, 15)>>

\* A text of three parts came back as a pair of dates.
C3_Witness ==
    \E i \in CallIds :
        Len(calls[i].out.parts) > 2 /\ Succeeded(calls[i].out)

\* C4: in a range whose two parts parse, an end earlier than the start comes
\* back with its year advanced by one and the start unchanged, and otherwise
\* both come back unchanged; for every parsed end, 29 February included.
C4_RolloverAdvancesYear ==
    \A i \in CallIds :
        LET o == calls[i].out
        IN (o.branch = "range" /\ o.parsed_start # None /\ o.parsed_end # None)
            => IF DateLT(o.parsed_end, o.parsed_start)
               THEN Returned(o) =
                        <<o.parsed_start,
                          Date(o.parsed_end.y + 1, o.parsed_end.m, o.parsed_end.d)>>
               ELSE Returned(o) = <<o.parsed_start, o.parsed_end>>

\* C5: in a range the month of the second part is copied onto the first part
\* exactly when the first names no month and the second names one; the second
\* part is never changed.  ("12 - 15 March", "2023") gives 2023-03-12 and
\* 2023-03-15.
C5_MonthCopiedWhenMissing ==
    \A i \in CallIds :
        LET c == calls[i]
            o == c.out
        IN o.branch = "range" =>
            /\ o.with_month[2] = o.parts[2]
            /\ IF ~HasMonthName(o.parts[1]) /\ HasMonthName(o.parts[2])
               THEN /\ Len(o.with_month[1]) = Len(o.parts[1]) + 2
                    /\ SubSeq(o.with_month[1], 1, Len(o.parts[1])) = o.parts[1]
                    /\ o.with_month[1][Len(o.parts[1]) + 1] = " "
                    /\ o.with_month[1][Len(o.parts[1]) + 2]
                           = SearchMonth(o.parts[2])
               ELSE o.with_month[1] = o.parts[1]
            /\ (c.text = <<"12", " ", "-", " ", "15", " ", "March">>
                    /\ c.year = "2023")
                   => Returned(o) = <<Date(2023, 3, 12), Date(2023, 3, 15)>>

\* "12 - 15 March" was normalised: its first part got the month.
C5_Witness ==
    \E i \in CallIds :
        /\ calls[i].text = <<"12", " ", "-", " ", "15", " ", "March">>
        /\ calls[i].out.with_month[1] = <<"12", " ", "March">>
        /\ Succeeded(calls[i].out)

\* C6 as stated: in a range the context year is appended to both parts when
\* neither holds a year, and to no part when at least one holds a year.
C6_YearOnlyIfNeither ==
    \A i \in CallIds :
        LET c == calls[i]
            o == c.out
        IN o.branch = "range" =>
            IF ~HasYear20(o.with_month[1]) /\ ~HasYear20(o.with_month[2])
            THEN /\ o.start_str = o.with_month[1] \o <<" ", c.year>>
                 /\ o.end_str = o.with_month[2] \o <<" ", c.year>>
            ELSE /\ o.start_str = o.with_month[1]
                 /\ o.end_str = o.with_month[2]

\* C6 amended: in a range the context year is appended to each part on its
\* own, exactly when that part holds no four-digit year beginning with "20".
C6_YearPerPart ==
    \A i \in CallIds :
        LET c == calls[i]
            o == c.out
        IN o.branch = "range" =>
            /\ o.start_str = IF HasYear20(o.with_month[1])
                             THEN o.with_month[1]
                             ELSE o.with_month[1] \o <<" ", c.year>>
            /\ o.end_str = IF HasYear20(o.with_month[2])
                           THEN o.with_month[2]
                           ELSE o.with_month[2] \o <<" ", c.year>>

\* A range whose second part alone held a year: the first part got the
\* context year.
C6_Witness ==
    \E i \in CallIds :
        LET c == calls[i]
            o == c.out
        IN /\ o.branch = "range"
           /\ ~HasYear20(o.with_month[1]) /\ HasYear20(o.with_month[2])
           /\ o.start_str = o.with_month[1] \o <<" ", c.year>>
           /\ o.end_str = o.with_month[2]

\* C7: for a text without a hyphen the context year is appended exactly when
\* the text holds no four-digit year beginning with "20", the text is parsed
\* once, and start and end are that one date.  ("5 May", "2024") gives
\* 2024-05-05 twice.
C7_SingleDate ==
    \A i \in CallIds :
        LET c == calls[i]
            o == c.out
            s == Normalize(c.text)
        IN ~HasHyphen(c.text) =>
            /\ o.branch = "single"
            /\ o.start_str = IF HasYear20(s) THEN s ELSE s \o <<" ", c.year>>
            /\ o.parsed_start = dateparser_parse(o.start_str, c.now)
            /\ Returned(o) = <<o.parsed_start, o.parsed_start>>
            /\ (c.text = <<"5", " ", "May">> /\ c.year = "2024")
                   => Returned(o) = <<Date(2024, 5, 5), Date(2024, 5, 5)>>

\* "5 May" was normalised under 2024.
C7_Witness ==
    \E i \in CallIds :
        /\ calls[i].text = <<"5", " ", "May">>
        /\ calls[i].year = "2024"
        /\ Returned(calls[i].out) = <<Date(2024, 5, 5), Date(2024, 5, 5)>>

\* The text names a month and a four-digit year beginning with "20" on the
\* single date it holds, or on both sides of the range it holds.
FullySpecified(text) ==
    LET sides == CleanParts(SplitAtHyphen(text, <<>>))
    IN /\ Len(sides) \in 1..2
       /\ \A k \in 1..Len(sides) : HasMonthName(sides[k]) /\ HasYear20(sides[k])

\* C8: for a fully specified text, two calls under two context years return
\* the same pair.
C8_ContextYearIrrelevant ==
    \A i, j \in CallIds :
        (/\ calls[i].text = calls[j].text
         /\ calls[i].now = calls[j].now
         /\ FullySpecified(calls[i].text))
            => Returned(calls[i].out) = Returned(calls[j].out)

\* A fully specified range was normalised under two context years.
C8_Witness ==
    \E i, j \in CallIds :
        /\ calls[i].year # calls[j].year
        /\ calls[i].now = calls[j].now
        /\ FullySpecified(calls[i].text)
        /\ calls[i].out.branch = "range"
        /\ Succeeded(calls[i].out) /\ Succeeded(calls[j].out)

\* C9: two calls with the same text and the same context year return the
\* same result, whatever the current date.
C9_SameInputsSameResult ==
    \A i, j \in CallIds :
        (calls[i].text = calls[j].text /\ calls[i].year = calls[j].year)
            => Returned(calls[i].out) = Returned(calls[j].out)

\* The rows of sheet k that parse_dates normalises to two dates, in order,
\* with the dates written YYYY-MM-DD.
RECURSIVE ExpectedRows(_, _)
ExpectedRows(rows, year) ==
    IF rows = <<>> THEN <<>>
    ELSE LET o == parse_dates(Head(rows), year, today)
         IN (IF Succeeded(o)
             THEN <<[Date |-> Head(rows),
                     StartDate |-> strftime(o.start_date),
                     EndDate |-> strftime(o.end_date)]>>
             ELSE <<>>) \o ExpectedRows(Tail(rows), year)

\* C10: on a sheet that was read and has a Date column, process_dates returns
\* normally, whatever rows fail to parse, and returns exactly the rows that
\* parsed, in order, with both dates formatted YYYY-MM-DD.
C10_UnparseableRowsDropped ==
    \A k \in 1..Len(frames) :
        (sheets[k].read = "ok" /\ sheets[k].has_date)
            => /\ ~frames[k].raised
               /\ frames[k].rows = ExpectedRows(sheets[k].rows, SheetNames[k])

\* The rows main is to write: sheet after sheet, the rows of every sheet that
\* was read and has a Date column, as C10 describes them.
RECURSIVE ExpectedCsv(_)
ExpectedCsv(k) ==
    IF k > Len(SheetNames) THEN <<>>
    ELSE (IF sheets[k].read = "ok" /\ sheets[k].has_date
          THEN ExpectedRows(sheets[k].rows, SheetNames[k])
          ELSE <<>>) \o ExpectedCsv(k + 1)

\* C11: for a sheet without a Date column process_dates returns an empty
\* frame without raising, main goes on through every other sheet, and what
\* it writes is the concatenation of the sibling sheets' rows in sheet order.
C11_MissingDateColumnSkipped ==
    \A k \in 1..Len(frames) :
        (sheets[k].read = "ok" /\ ~sheets[k].has_date)
            => /\ frames[k] = EmptyFrame
               /\ pc # "crashed"
               /\ csv.written => csv.rows = ExpectedCsv(1)

\* C13: a text with a hyphen whose split does not give exactly two non-empty
\* parts (and gives one at least: a trailing hyphen) gets the result the single-date handling of the same text gives
\* (context year appended when the text holds no year, one parse), with
\* start = end.
C13_FallbackIsSingleDate ==
    \A i \in CallIds :
        LET c == calls[i]
            o == c.out
        IN (HasHyphen(c.text) /\ Len(o.parts) # 2 /\ Len(o.parts) >= 1)
            => /\ o.start_date = o.end_date
               /\ Returned(o)
                      = Returned(ParseSingle(Normalize(c.text), c.year, c.now))

\* The rows of the earned-media sheets 1..k that were read, in list order.
RECURSIVE EarnedExpected(_)
EarnedExpected(k) ==
    IF k = 0 THEN <<>>
    ELSE EarnedExpected(k - 1)
             \o (IF earned.sheets[k].read = "ok"
                 THEN [i \in 1..Len(earned.sheets[k].rows) |->
                          [sheet |-> EarnedSheetNames[k],
                           cell |-> earned.sheets[k].rows[i]]]
                 ELSE <<>>)

\* The earned-media half of C12: df_total holds the rows of exactly the
\* sheets read so far, in list order, and is returned only after every sheet
\* name had its turn.
EarnedSkipsFailedSheets ==
    /\ earned.df_total = EarnedExpected(earned.next - 1)
    /\ earned.returned => earned.next = Len(earned.sheets) + 1

\* A sheet failed to read, a later one was read, and df_total was returned.
EarnedWitness ==
    /\ earned.returned
    /\ \E j, k \in 1..Len(earned.sheets) :
          /\ j < k
          /\ earned.sheets[j].read # "ok"
          /\ earned.sheets[k].read = "ok" /\ earned.sheets[k].rows # <<>>

\* The events-calendar half of C12: a sheet whose read failed gives an empty
\* frame, main goes on through the later sheets, and what it writes is the
\* concatenation of the rows of the sheets that were read.
EventsSkipsFailedSheets ==
    \A k \in 1..Len(frames) :
        sheets[k].read # "ok"
            => /\ frames[k] = EmptyFrame
               /\ pc # "crashed"
               /\ csv.written => csv.rows = ExpectedCsv(1)

\* C12: a failure to read one sheet is caught for that sheet only: it
\* contributes no rows, every later sheet is still read, the run goes on, and
\* the result is the concatenation in list order of the rows of the sheets
\* that were read; in the events calendar and in the earned-media reader.
C12_ReadFailureSkipsOneSheet ==
    EventsSkipsFailedSheets /\ EarnedSkipsFailedSheets

====
